---- MODULE Spec2Model ----
(***************************************************************************)
(* Model of the run loader of tensorboard/data/server/run.rs: the file     *)
(* map of one run, the staged data, the per-run commit storage and the     *)
(* load cycle (reload), stepped at the grain of one read_event call.       *)
(***************************************************************************)
EXTENDS Integers, Sequences, FiniteSets, TLC

\* ------------------------------------------------------------------ bounds

\* Longest filenames list handed to reload (it may repeat an id).
MaxNames == 2
\* Records the readers yield in a behaviour of Spec.
MaxHandled == 2
\* Records the readers yield in a behaviour of SpecPace.
PaceHandled == 100
\* Times the wall clock advances in a behaviour of SpecPace.
PaceTicks == 2
\* Records the readers yield in a behaviour of SpecData.
DataHandled == 3
\* Records the readers yield in a behaviour of SpecSteps.
StepsHandled == 3
\* Records the readers yield in a behaviour of SpecLock.
LockHandled == 2
\* Serving readers that may hold the read side of the lock at once.
MaxReaders == 1
\* Times the wall clock advances in a behaviour of SpecLockPace.
LockTicks == 1
VariantsHandled == 2

\* --------------------------------------------------------- program constants

\* const COMMIT_INTERVAL: Duration = Duration::from_secs(5), in seconds.
COMMIT_INTERVAL == 5
\* The clock is looked at after every 100th event of a cycle (n % 100 == 0).
CheckEvery == 100
\* Reservoir capacities of StageTimeSeries::new.
ScalarCapacity == 1000
TensorCapacity == 100
BlobSequenceCapacity == 10

\* ------------------------------------------------------------------ helpers

Range(s) == {s[i] : i \in DOMAIN s}
Min(S) == CHOOSE x \in S : \A y \in S : x <= y
EmptyMap == [x \in {} |-> 0]
Put(m, k, v) == [x \in DOMAIN m \cup {k} |-> IF x = k THEN v ELSE m[x]]
\* Option<T>: None is the empty sequence, Some(v) the one-element sequence.
None == <<>>
Some(v) == <<v>>
IsSome(o) == Len(o) = 1
Unwrap(o) == o[1]

\* The event files of the run: EventFileBuf values, named by integers whose
\* order stands for the lexicographic order of the file names.
FileIds == {1, 2}
SeqsUpTo(S, k) == UNION {[1..m -> S] : m \in 0..k}

\* ------------------------------------------------------------- event records

\* f64 wall times of pb::Event: NaN, or a whole number of seconds.
NaN == [nan |-> TRUE, val |-> 0]
F64(v) == [nan |-> FALSE, val |-> v]
RawWallTimes == {NaN, F64(-1), F64(1), F64(2)}

\* WallTime::new: None for NaN and for a negative value.
WallTimeNew(x) == IF x.nan \/ x.val < 0 THEN None ELSE Some(x.val)

GraphTag == "__run_graph__"

\* One value of a Summary: its tag, its metadata (None here) and its payload
\* ("none" when summary_pb_value.value is None).
SummaryValues ==
    { [tag |-> "acc", metadata |-> None, payload |-> "scalar"],
      [tag |-> "img", metadata |-> None, payload |-> "tensor"] }

\* e.what, without the wall time and the step.
Whats ==
    { [kind |-> "FileVersion", tag |-> "", values |-> <<>>],
      [kind |-> "None", tag |-> "", values |-> <<>>] }
    \cup { [kind |-> "Summary", tag |-> "", values |-> <<v>>] : v \in SummaryValues }

MkEvent(w, s, what) ==
    [wall_time |-> w, step |-> s, kind |-> what.kind, tag |-> what.tag,
     values |-> what.values]

\* The records a reader may yield in Spec: file version records, records of no
\* known variant, scalar summaries and tensor summaries, each with a valid or
\* an invalid wall time. GraphDef and TaggedRunMetadata records, which
\* ReadValid stages too, are not drawn.
Events == {MkEvent(w, 0, what) : w \in RawWallTimes, what \in Whats}
\* The records a reader may yield in SpecPace: file version records.
PaceEvents ==
    {MkEvent(F64(1), 0, [kind |-> "FileVersion", tag |-> "", values |-> <<>>])}

\* ------------------------------------------------- metadata and event values

\* pb::SummaryMetadata, as far as the loader looks at it.
GraphDefInitialMetadata ==
    [data_class |-> "BlobSequence", plugin_name |-> "graphs"]
TaggedRunMetadataInitialMetadata ==
    [data_class |-> "BlobSequence", plugin_name |-> "graph_tagged_run_metadata"]
\* SummaryValue::initial_metadata: the value's own metadata when it has one,
\* with the data class and plugin defaults of the payload variant.
SummaryInitialMetadata(payload, md) ==
    LET class == CASE payload = "scalar" -> "Scalar"
                   [] payload = "tensor" -> "Tensor"
                   [] payload = "blob" -> "BlobSequence"
                   [] OTHER -> "Unknown"
        plugin == CASE payload = "scalar" -> "scalars"
                    [] OTHER -> ""
    IN  IF IsSome(md)
        THEN [data_class |-> class, plugin_name |-> Unwrap(md).plugin_name]
        ELSE [data_class |-> class, plugin_name |-> plugin]

\* EventValue: GraphDef(bytes) or Summary(value).
EventValueGraphDef == [variant |-> "GraphDef", payload |-> "bytes"]
EventValueSummary(payload) == [variant |-> "Summary", payload |-> payload]

\* Result<V, commit::DataLoss> of the transforms handed to commit_to.
DataLoss == [ok |-> FALSE, v |-> "DataLoss"]
Ok(v) == [ok |-> TRUE, v |-> v]
IntoScalar(ev) ==
    IF ev.variant = "Summary" /\ ev.payload = "scalar" THEN Ok("scalar") ELSE DataLoss
IntoBlobSequence(ev) ==
    IF ev.variant = "GraphDef" \/ (ev.variant = "Summary" /\ ev.payload = "blob")
    THEN Ok("blobs") ELSE DataLoss

\* ---------------------------------------------------------------- reservoir

\* StageReservoir::new: nothing staged, nothing retained.
StageReservoirNew(capacity) ==
    [capacity |-> capacity, staged |-> <<>>, kept |-> <<>>]

\* StageReservoir::offer: the sample joins the stage buffer.
Offer(rsv, step, sv) ==
    [rsv EXCEPT !.staged = Append(@, [step |-> step, value |-> sv])]

\* The last sample offered at each step, in step order. No behaviour of the
\* model offers more distinct steps than a capacity, so nothing is sampled out.
RECURSIVE SortedBySteps(_, _)
SortedBySteps(items, steps) ==
    IF steps = {} THEN <<>>
    ELSE LET s == Min(steps)
             last == CHOOSE i \in DOMAIN items :
                        /\ items[i].step = s
                        /\ \A j \in DOMAIN items : items[j].step = s => j <= i
         IN  <<items[last]>> \o SortedBySteps(items, steps \ {s})

Retained(items) == SortedBySteps(items, {items[i].step : i \in DOMAIN items})

\* StageReservoir::commit_map: drains the stage buffer into the retained
\* population and rewrites the basin from it. Transform: "scalar" or "blob".
Enrich(transform, payload) ==
    IF transform = "scalar" THEN IntoScalar(payload) ELSE IntoBlobSequence(payload)

CommitMap(rsv, transform) ==
    LET kept == Retained(rsv.kept \o rsv.staged)
    IN  [rsv |-> [rsv EXCEPT !.staged = <<>>, !.kept = kept],
         basin |-> [i \in DOMAIN kept |->
                      [step |-> kept[i].step,
                       wall_time |-> kept[i].value.wall_time,
                       value |-> Enrich(transform, kept[i].value.payload)]]]

\* ---------------------------------------------------------- StageTimeSeries

DataClassFromI32(metadata) ==
    IF metadata.data_class \in {"Scalar", "Tensor", "BlobSequence"}
    THEN metadata.data_class ELSE "Unknown"

StageTimeSeriesNew(metadata) ==
    LET data_class == DataClassFromI32(metadata)
        capacity == CASE data_class = "Scalar" -> ScalarCapacity
                      [] data_class = "Tensor" -> TensorCapacity
                      [] data_class = "BlobSequence" -> BlobSequenceCapacity
                      [] OTHER -> 0
    IN  [data_class |-> data_class, metadata |-> metadata,
         rsv |-> StageReservoirNew(capacity)]

\* commit::TimeSeries::new(metadata): an empty basin.
CommitTimeSeriesNew(metadata) == [metadata |-> metadata, basin |-> <<>>]

\* A commit_to that adds the retained samples to the basin of the entry.
CommitToAppend(ts, tag, store, transform) ==
    LET commit_ts == IF tag \in DOMAIN store THEN store[tag]
                     ELSE CommitTimeSeriesNew(ts.metadata)
        r == CommitMap(ts.rsv, transform)
    IN  [ts |-> [ts EXCEPT !.rsv = r.rsv],
         store |-> Put(store, tag, [commit_ts EXCEPT !.basin = @ \o r.basin])]

\* StageTimeSeries::commit_to: the entry of the store is looked up or created
\* with a clone of the metadata, then the reservoir commits into its basin.
CommitTo(ts, tag, store, transform) ==
    LET commit_ts == IF tag \in DOMAIN store THEN store[tag]
                     ELSE CommitTimeSeriesNew(ts.metadata)
        r == CommitMap(ts.rsv, transform)
    IN  [ts |-> [ts EXCEPT !.rsv = r.rsv],
         store |-> Put(store, tag, [commit_ts EXCEPT !.basin = r.basin])]

\* A commit whose sink follows the payload variant of the latest sample of the
\* series, when that sample is a scalar or a blob sequence.
CommitByPayload(ts, tag, run) ==
    LET all == ts.rsv.kept \o ts.rsv.staged
        class == IF all = <<>> THEN ts.data_class
                 ELSE LET last == all[Len(all)].value.payload
                      IN  IF IntoScalar(last).ok THEN "Scalar"
                          ELSE IF IntoBlobSequence(last).ok THEN "BlobSequence"
                          ELSE ts.data_class
    IN  CASE class = "Scalar" ->
                LET r == CommitTo(ts, tag, run.scalars, "scalar")
                IN  [ts |-> r.ts, run |-> [run EXCEPT !.scalars = r.store]]
          [] class = "BlobSequence" ->
                LET r == CommitTo(ts, tag, run.blob_sequences, "blob")
                IN  [ts |-> r.ts, run |-> [run EXCEPT !.blob_sequences = r.store]]
          [] OTHER -> [ts |-> ts, run |-> run]

\* StageTimeSeries::commit: the sink is chosen by the data class of the series.
Commit(ts, tag, run) ==
    CASE ts.data_class = "Scalar" ->
            LET r == CommitTo(ts, tag, run.scalars, "scalar")
            IN  [ts |-> r.ts, run |-> [run EXCEPT !.scalars = r.store]]
      [] ts.data_class = "BlobSequence" ->
            LET r == CommitTo(ts, tag, run.blob_sequences, "blob")
            IN  [ts |-> r.ts, run |-> [run EXCEPT !.blob_sequences = r.store]]
      [] OTHER -> [ts |-> ts, run |-> run]

\* ------------------------------------------------------------ RunLoaderData

RunLoaderDataDefault == [start_time |-> None, time_series |-> EmptyMap]
RunDataDefault ==
    [start_time |-> None, scalars |-> EmptyMap, blob_sequences |-> EmptyMap]

RECURSIVE CommitSeries(_, _, _)
CommitSeries(tags, d, run) ==
    IF tags = {} THEN [data |-> d, run |-> run]
    ELSE LET tag == CHOOSE t \in tags : TRUE
             r == Commit(d.time_series[tag], tag, run)
         IN  CommitSeries(tags \ {tag},
                          [d EXCEPT !.time_series[tag] = r.ts], r.run)

\* A commit_all that leaves nothing staged or retained in the loader.
CommitAllClearStaged(d, run) ==
    [data |-> [d EXCEPT !.time_series = EmptyMap],
     run |-> CommitSeries(DOMAIN d.time_series, d,
                          [run EXCEPT !.start_time = d.start_time]).run]

\* A commit_all that leaves the start time of the run as it is.
CommitAllKeepStart(d, run) == CommitSeries(DOMAIN d.time_series, d, run)

\* RunLoaderData::commit_all, with the writer side of run_data acquired.
CommitAll(d, run) ==
    CommitSeries(DOMAIN d.time_series, d,
                 [run EXCEPT !.start_time = d.start_time])

\* An entry whose metadata follows the latest record of the tag.
OfferToLatestMetadata(d, tag, metadata, step, sv) ==
    LET ts == IF tag \in DOMAIN d.time_series
              THEN [d.time_series[tag] EXCEPT !.metadata = metadata]
              ELSE StageTimeSeriesNew(metadata)
    IN  [d EXCEPT !.time_series =
            Put(@, tag, [ts EXCEPT !.rsv = Offer(@, step, sv)])]

\* An entry that is offered a sample only at a step it has no sample of.
OfferToFirstAtStep(d, tag, metadata, step, sv) ==
    LET ts == IF tag \in DOMAIN d.time_series THEN d.time_series[tag]
              ELSE StageTimeSeriesNew(metadata)
        have == {x.step : x \in Range(ts.rsv.kept) \cup Range(ts.rsv.staged)}
    IN  [d EXCEPT !.time_series =
            Put(@, tag, IF step \in have THEN ts
                        ELSE [ts EXCEPT !.rsv = Offer(@, step, sv)])]

\* time_series.entry(tag): the series of the tag, created from the metadata
\* when the entry is vacant; then one sample is offered to its reservoir.
OfferTo(d, tag, metadata, step, sv) ==
    LET ts == IF tag \in DOMAIN d.time_series THEN d.time_series[tag]
              ELSE StageTimeSeriesNew(metadata)
    IN  [d EXCEPT !.time_series =
            Put(@, tag, [ts EXCEPT !.rsv = Offer(@, step, sv)])]

\* A loop over the values of a Summary that stages a value without payload
\* as well.
RECURSIVE ReadSummaryStageAbsent(_, _, _, _)
ReadSummaryStageAbsent(d, values, step, wall_time) ==
    IF values = <<>> THEN d
    ELSE LET v == Head(values)
         IN  ReadSummaryStageAbsent(
                OfferTo(d, v.tag, SummaryInitialMetadata(v.payload, v.metadata),
                        step,
                        [wall_time |-> wall_time,
                         payload |-> EventValueSummary(v.payload)]),
                Tail(values), step, wall_time)

RECURSIVE ReadSummary(_, _, _, _)
ReadSummary(d, values, step, wall_time) ==
    IF values = <<>> THEN d
    ELSE LET v == Head(values)
         IN  IF v.payload = "none"
             THEN ReadSummary(d, Tail(values), step, wall_time)
             ELSE ReadSummary(
                    OfferTo(d, v.tag, SummaryInitialMetadata(v.payload, v.metadata),
                            step,
                            [wall_time |-> wall_time,
                             payload |-> EventValueSummary(v.payload)]),
                    Tail(values), step, wall_time)

\* A start time that keeps the wall time of the first record seen.
UpdateStartTimeFirst(start_time, wt) ==
    IF start_time = None THEN Some(wt) ELSE start_time

\* read_event, the start time after a record with the valid wall time wt.
UpdateStartTime(start_time, wt) ==
    IF start_time = None \/ wt < Unwrap(start_time) THEN Some(wt) ELSE start_time

\* read_event, after the wall time wt of the event was found valid: the start
\* time is updated and the event is staged by its variant.
ReadValid(d, e, wt) ==
    LET d1 == [d EXCEPT !.start_time = UpdateStartTime(@, wt)]
    IN  CASE e.kind = "GraphDef" ->
                OfferTo(d1, GraphTag, GraphDefInitialMetadata, e.step,
                        [wall_time |-> wt, payload |-> EventValueGraphDef])
          [] e.kind = "TaggedRunMetadata" ->
                OfferTo(d1, e.tag, TaggedRunMetadataInitialMetadata, e.step,
                        [wall_time |-> wt, payload |-> EventValueGraphDef])
          [] e.kind = "Summary" -> ReadSummary(d1, e.values, e.step, wt)
          [] OTHER -> d1

\* A read_event that takes an invalid wall time for time zero.
ReadEventInvalidAsZero(d, e) ==
    LET wall_time == WallTimeNew(e.wall_time)
    IN  ReadValid(d, e, IF wall_time = None THEN 0 ELSE Unwrap(wall_time))

\* RunLoaderData::read_event: an event with an invalid wall time is dropped.
ReadEvent(d, e) ==
    LET wall_time == WallTimeNew(e.wall_time)
    IN  IF wall_time = None THEN d ELSE ReadValid(d, e, Unwrap(wall_time))

\* ------------------------------------------------------------- the file map

\* EventFile<R>: Active(reader) or Dead. A reader is the number of records it
\* has yielded so far and its checksum setting.
Dead == [st |-> "Dead", reader |-> None]
Active(reader) == [st |-> "Active", reader |-> Some(reader)]
\* EventFileReader::new(file), then reader.checksum(yes).
EventFileReaderNew(yes) == [pos |-> 0, checksum |-> yes]

IsActive(fs, k) == k \in DOMAIN fs /\ fs[k].st = "Active"
IsDead(fs, k) == k \in DOMAIN fs /\ fs[k].st = "Dead"

\* A file map update that forgets to mark the discarded files.
MarkDiscardedNone(fs, names) == fs

\* update_file_set, first loop: every entry whose key is not in the new file
\* set becomes Dead.
MarkDiscarded(fs, names) ==
    [k \in DOMAIN fs |-> IF k \notin Range(names) THEN Dead ELSE fs[k]]

\* An open step that opens a listed file again when its entry is Dead.
OpenEntryReopenDead(fs, cs, filename, ok) ==
    IF filename \in DOMAIN fs /\ fs[filename].st = "Active"
    THEN [files |-> fs, opened |-> <<>>]
    ELSE [files |-> Put(fs, filename,
                        IF ok THEN Active(EventFileReaderNew(cs)) ELSE Dead),
          opened |-> << <<filename, ok>> >>]

\* An open step that records nothing for a file whose open failed.
OpenEntryNoTombstone(fs, cs, filename, ok) ==
    IF filename \in DOMAIN fs
    THEN [files |-> fs, opened |-> <<>>]
    ELSE [files |-> IF ok THEN Put(fs, filename, Active(EventFileReaderNew(cs)))
                    ELSE fs,
          opened |-> << <<filename, ok>> >>]

\* An open step that applies the loader's checksum flag to the reader of an
\* occupied entry too.
OpenEntryRechecksum(fs, cs, filename, ok) ==
    IF filename \in DOMAIN fs
    THEN [files |-> IF fs[filename].st = "Active"
                    THEN [fs EXCEPT ![filename] =
                            Active([Unwrap(@.reader) EXCEPT !.checksum = cs])]
                    ELSE fs,
          opened |-> <<>>]
    ELSE [files |-> Put(fs, filename,
                        IF ok THEN Active(EventFileReaderNew(cs)) ELSE Dead),
          opened |-> << <<filename, ok>> >>]

\* An open step that gives a listed file whose entry is Active a new reader.
OpenEntryFreshReader(fs, cs, filename, ok) ==
    IF filename \in DOMAIN fs
    THEN [files |-> IF fs[filename].st = "Active"
                    THEN [fs EXCEPT ![filename] = Active(EventFileReaderNew(cs))]
                    ELSE fs,
          opened |-> <<>>]
    ELSE [files |-> Put(fs, filename,
                        IF ok THEN Active(EventFileReaderNew(cs)) ELSE Dead),
          opened |-> << <<filename, ok>> >>]

\* update_file_set, one turn of the second loop: an occupied entry is left
\* alone, a vacant one gets what logdir.open gave (ok: the open succeeded).
\* opened lists the calls of logdir.open made, with their outcome.
OpenEntry(fs, cs, filename, ok) ==
    IF filename \in DOMAIN fs
    THEN [files |-> fs, opened |-> <<>>]
    ELSE [files |-> Put(fs, filename,
                        IF ok THEN Active(EventFileReaderNew(cs)) ELSE Dead),
          opened |-> << <<filename, ok>> >>]

RECURSIVE OpenNew(_, _, _, _, _, _)
OpenNew(fs, cs, names, outcomes, i, opened) ==
    IF i > Len(names) THEN [files |-> fs, opened |-> opened]
    ELSE LET r == OpenEntry(fs, cs, names[i], outcomes[i])
         IN  OpenNew(r.files, cs, names, outcomes, i + 1, opened \o r.opened)

\* RunLoader::update_file_set. outcomes[i] is what logdir.open answers if it is
\* called for names[i].
UpdateFileSet(fs, cs, names, outcomes) ==
    OpenNew(MarkDiscarded(fs, names), cs, names, outcomes, 1, <<>>)

\* An iteration over the keys in descending order.
KeyAfterDescending(fs, cur) ==
    LET earlier == IF cur = None THEN DOMAIN fs
                   ELSE {g \in DOMAIN fs : g < Unwrap(cur)}
    IN  IF earlier = {} THEN None
        ELSE Some(CHOOSE x \in earlier : \A y \in earlier : y <= x)

\* An iteration that ends after the first key.
KeyAfterFirstOnly(fs, cur) ==
    IF cur = None /\ DOMAIN fs # {} THEN Some(Min(DOMAIN fs)) ELSE None

\* self.files.iter_mut(): the keys in ascending order. The key that follows
\* cur (the first key when cur is None), or None past the last key.
KeyAfter(fs, cur) ==
    LET later == IF cur = None THEN DOMAIN fs
                 ELSE {g \in DOMAIN fs : g > Unwrap(cur)}
    IN  IF later = {} THEN None ELSE Some(Min(later))

\* A match on read_event that gives up the file on a truncated tail too.
AfterReadTruncatedDead(ef, outcome) ==
    CASE outcome = "ok" -> Active([Unwrap(ef.reader) EXCEPT !.pos = @ + 1])
      [] OTHER -> Dead

\* reload_files, the match on reader.read_event(): the entry of the file after
\* the outcome "ok" (an event), "truncated" or "error" (any other error).
AfterRead(ef, outcome) ==
    CASE outcome = "ok" -> Active([Unwrap(ef.reader) EXCEPT !.pos = @ + 1])
      [] outcome = "truncated" -> ef
      [] OTHER -> Dead

\* -------------------------------------------------------------------- state

VARIABLES
    files,            \* RunLoader.files
    checksum,         \* RunLoader.checksum
    data,             \* RunLoader.data
    run_storage,      \* the commit::RunData behind run_data
    pc,               \* "idle": no reload is running; "reading": in reload_files;
                      \* "handler", "finishing": in the commit_all called by the
                      \* handler, by reload at its end; "panicked": reload has
                      \* panicked; "dropped": the loader has been dropped
    new_file_set,     \* update_file_set's new_file_set: the ids in the filenames
                      \* argument of the running reload
    cursor,           \* the key reload_files is at; None past the last key
    n,                \* events handled in this reload
    last_commit_time, \* reload's last_commit_time
    now,              \* the wall clock (Instant::now()), in seconds
    firstName,        \* history: the first id of the filenames argument, if any
    repeated,         \* history: the filenames argument lists an id twice
    deadCause,        \* history: why each Dead entry is Dead: "open" (the open
                      \*          failed), "read" (a read error) or "omitted"
    handled,          \* history: records yielded by the readers
    cycleLog,         \* history: <<file, index, valid wall time>> of every record
                      \*          handled in this reload, in order
    openLog,          \* history: the logdir.open calls of this reload
    openCount,        \* history: logdir.open calls per file id, ever
    stopped,          \* history: how reading of each file ended in this reload,
                      \*          and the entry of the file at that moment
    seenValid,        \* history: the valid wall times of all records handled
    pubs,             \* history: publications (commit_all) of this reload
    unpublished,      \* history: events handled since the last publication
    lastPub,          \* history: the clock at the loader's last publication
    lifeLog,          \* history, kept by the specifications that ask for it:
                      \*          <<file, index, event>> of every record handled
    lastFileSet,      \* history, likewise: the file set of the last reload
    before,           \* history, likewise: the loader, the commit and the last
                      \*          file set as the running reload found them
    lock,             \* the RwLock around run_storage
    cpc,              \* commit_all's position, in the specifications that step it
    todo,             \* the tags commit_all has yet to commit
    lastComplete      \* history: run_storage as the last whole commit_all left it

\* The loader and the commit.
loaderVars == <<files, checksum, data, run_storage>>
\* The arguments and locals of the running reload.
reloadVars == <<pc, new_file_set, cursor, n, last_commit_time>>
\* The history of the running reload, and of the loader.
cycleHist == <<firstName, repeated, cycleLog, openLog, stopped>>
lifeHist == <<deadCause, handled, openCount, seenValid, pubs, unpublished, lastPub>>
\* The history only some specifications keep.
trackHist == <<lifeLog, lastFileSet, before>>
\* The lock of run_storage and the commit_all in progress.
lockVars == <<lock, cpc, todo, lastComplete>>

vars == <<loaderVars, reloadVars, now, cycleHist, lifeHist, trackHist, lockVars>>

\* RwLock::new: nobody holds the lock and it is not poisoned.
RwLockNew == [writer |-> FALSE, readers |-> 0, poisoned |-> FALSE]
\* write() returns once no reader and no writer holds the lock.
CanWrite(l) == ~l.writer /\ l.readers = 0

\* A write() that never reports poisoning.
WriteNeverErr(l) == FALSE

\* write() returns Err(PoisonError) when an earlier holder of the writer side
\* panicked; expect then panics, and the guard inside the error is dropped.
WriteIsErr(l) == l.poisoned

\* A write() that hands out the data without holding the lock.
WriteLockNone(l) == l

\* write() returned Ok(guard): the writer side is held.
WriteLock(l) == [l EXCEPT !.writer = TRUE]

\* An end of commit_all that keeps the guard.
WriteUnlockKeep(l) == l

\* The guard run is dropped at the end of commit_all.
WriteUnlock(l) == [l EXCEPT !.writer = FALSE]

\* RunLoader::new, with an empty entry for the run in the commit.
Init ==
    /\ files = EmptyMap
    /\ checksum = TRUE
    /\ data = RunLoaderDataDefault
    /\ run_storage = RunDataDefault
    /\ pc = "idle"
    /\ new_file_set = {}
    /\ cursor = None
    /\ n = 0
    /\ last_commit_time = 0
    /\ now = 0
    /\ firstName = None
    /\ repeated = FALSE
    /\ deadCause = [f \in FileIds |-> "none"]
    /\ handled = 0
    /\ cycleLog = <<>>
    /\ openLog = <<>>
    /\ openCount = [f \in FileIds |-> 0]
    /\ stopped = [f \in FileIds |-> None]
    /\ seenValid = {}
    /\ pubs = 0
    /\ unpublished = 0
    /\ lastPub = None
    /\ lifeLog = <<>>
    /\ lastFileSet = None
    /\ before = None
    /\ lock = RwLockNew
    /\ cpc = "none"
    /\ todo = {}
    /\ lastComplete = RunDataDefault

\* ------------------------------------------------------------------ actions

\* RunLoader::checksum(yes), between two reloads.
SetChecksum ==
    /\ pc = "idle"
    /\ checksum' = ~checksum
    /\ UNCHANGED <<files, data, run_storage, reloadVars, now, cycleHist, lifeHist,
                   trackHist, lockVars>>

\* The wall clock advances, by the length of one commit interval.
Tick(maxTicks) ==
    /\ now < maxTicks * COMMIT_INTERVAL
    /\ now' = now + COMMIT_INTERVAL
    /\ UNCHANGED <<loaderVars, reloadVars, cycleHist, lifeHist, trackHist, lockVars>>

Count(log, f) == Cardinality({i \in DOMAIN log : log[i][1] = f})

\* reload is called with one of the filenames lists: update_file_set
\* reconciles the file map, then reload_files starts at the first key. track:
\* the behaviour keeps lastFileSet and before.
Reload(lists, track) ==
    /\ pc = "idle"
    /\ \E names \in lists :
         \E outcomes \in [1..Len(names) -> BOOLEAN] :
            LET r == UpdateFileSet(files, checksum, names, outcomes)
            IN  /\ files' = r.files
                /\ new_file_set' = Range(names)
                /\ cursor' = KeyAfter(r.files, None)
                /\ openLog' = r.opened
                /\ openCount' = [f \in FileIds |-> openCount[f] + Count(r.opened, f)]
                /\ firstName' = IF names = <<>> THEN None ELSE Some(names[1])
                /\ repeated' = (Len(names) > Cardinality(Range(names)))
                /\ deadCause' =
                     [f \in FileIds |->
                        CASE IsActive(files, f) /\ IsDead(r.files, f) -> "omitted"
                          [] f \notin DOMAIN files /\ IsDead(r.files, f) -> "open"
                          [] OTHER -> deadCause[f]]
                /\ lastFileSet' = IF track THEN Some(Range(names)) ELSE lastFileSet
    /\ before' = IF track
                 THEN Some([files |-> files, data |-> data, run |-> run_storage,
                            file_set |-> lastFileSet])
                 ELSE before
    /\ n' = 0
    /\ last_commit_time' = now
    /\ pc' = "reading"
    /\ cycleLog' = <<>>
    /\ stopped' = [f \in FileIds |-> None]
    /\ pubs' = 0
    /\ UNCHANGED <<checksum, data, run_storage, now, handled, seenValid,
                   unpublished, lastPub, lifeLog, lockVars>>

\* reload_files is at a Dead entry: continue.
SkipDead ==
    /\ pc = "reading"
    /\ IsSome(cursor)
    /\ files[Unwrap(cursor)].st = "Dead"
    /\ cursor' = KeyAfter(files, cursor)
    /\ UNCHANGED <<loaderVars, pc, new_file_set, n, last_commit_time, now,
                   cycleHist, lifeHist, trackHist, lockVars>>

\* A handler that commits only when more than the interval has elapsed.
CommitDueStrict(m, elapsed) == m % CheckEvery = 0 /\ elapsed > COMMIT_INTERVAL

\* Whether the handler of reload commits after its event number m.
CommitDue(m, elapsed) == m % CheckEvery = 0 /\ elapsed >= COMMIT_INTERVAL

\* read_event gave Ok(e): the handler of reload stages the event and, when a
\* commit is due, publishes. track: the behaviour keeps lifeLog. stepped: the
\* commit_all is not part of this step, the handler is left at its call.
ReadOk(evs, budget, track, stepped) ==
    /\ pc = "reading"
    /\ IsSome(cursor)
    /\ files[Unwrap(cursor)].st = "Active"
    /\ handled < budget
    /\ \E e \in evs :
         LET f == Unwrap(cursor)
             staged == ReadEvent(data, e)
             called == CommitDue(n + 1, now - last_commit_time)
             due == called /\ ~stepped
             c == CommitAll(staged, run_storage)
             wt == WallTimeNew(e.wall_time)
         IN  /\ files' = [files EXCEPT ![f] = AfterRead(@, "ok")]
             /\ n' = n + 1
             /\ data' = IF due THEN c.data ELSE staged
             /\ run_storage' = IF due THEN c.run ELSE run_storage
             /\ last_commit_time' = IF due THEN now ELSE last_commit_time
             /\ pubs' = IF due THEN pubs + 1 ELSE pubs
             /\ unpublished' = IF due THEN 0 ELSE unpublished + 1
             /\ lastPub' = IF due THEN Some(now) ELSE lastPub
             /\ cycleLog' = Append(cycleLog,
                                   <<f, Unwrap(files[f].reader).pos + 1, IsSome(wt)>>)
             /\ seenValid' = IF IsSome(wt) THEN seenValid \cup {Unwrap(wt)}
                             ELSE seenValid
             /\ lifeLog' = IF track
                           THEN Append(lifeLog,
                                       <<f, Unwrap(files[f].reader).pos + 1, e>>)
                           ELSE lifeLog
             /\ lastComplete' = IF due THEN c.run ELSE lastComplete
             /\ pc' = IF called /\ stepped THEN "handler" ELSE pc
             /\ cpc' = IF called /\ stepped THEN "acquire" ELSE cpc
    /\ handled' = handled + 1
    /\ UNCHANGED <<checksum, new_file_set, cursor, now, firstName, repeated,
                   openLog, stopped, deadCause, openCount, lastFileSet, before,
                   lock, todo>>

\* read_event gave Err(ReadRecordError(Truncated)): break, the entry stays.
ReadTruncated ==
    /\ pc = "reading"
    /\ IsSome(cursor)
    /\ files[Unwrap(cursor)].st = "Active"
    /\ files' = [files EXCEPT ![Unwrap(cursor)] = AfterRead(@, "truncated")]
    /\ cursor' = KeyAfter(files, cursor)
    /\ stopped' = [stopped EXCEPT ![Unwrap(cursor)] =
                      Some([how |-> "truncated", entry |-> files[Unwrap(cursor)]])]
    /\ UNCHANGED <<checksum, data, run_storage, pc, new_file_set, n,
                   last_commit_time, now, firstName, repeated, cycleLog, openLog,
                   lifeHist, trackHist, lockVars>>

\* A read error that also drops what the loader has staged and retained.
ReadErrorRetract ==
    /\ pc = "reading"
    /\ IsSome(cursor)
    /\ files[Unwrap(cursor)].st = "Active"
    /\ files' = [files EXCEPT ![Unwrap(cursor)] = AfterRead(@, "error")]
    /\ data' = [data EXCEPT !.time_series = EmptyMap]
    /\ cursor' = KeyAfter(files, cursor)
    /\ stopped' = [stopped EXCEPT ![Unwrap(cursor)] =
                      Some([how |-> "error", entry |-> files[Unwrap(cursor)]])]
    /\ deadCause' = [f \in FileIds |->
                       IF IsActive(files, f) /\ IsDead(files', f) THEN "read"
                       ELSE deadCause[f]]
    /\ UNCHANGED <<checksum, run_storage, pc, new_file_set, n,
                   last_commit_time, now, firstName, repeated, cycleLog, openLog,
                   handled, openCount, seenValid, pubs, unpublished, lastPub,
                   trackHist, lockVars>>

\* read_event gave any other error: the entry becomes Dead, break.
ReadError ==
    /\ pc = "reading"
    /\ IsSome(cursor)
    /\ files[Unwrap(cursor)].st = "Active"
    /\ files' = [files EXCEPT ![Unwrap(cursor)] = AfterRead(@, "error")]
    /\ cursor' = KeyAfter(files, cursor)
    /\ stopped' = [stopped EXCEPT ![Unwrap(cursor)] =
                      Some([how |-> "error", entry |-> files[Unwrap(cursor)]])]
    /\ deadCause' = [f \in FileIds |->
                       IF IsActive(files, f) /\ IsDead(files', f) THEN "read"
                       ELSE deadCause[f]]
    /\ UNCHANGED <<checksum, data, run_storage, pc, new_file_set, n,
                   last_commit_time, now, firstName, repeated, cycleLog, openLog,
                   handled, openCount, seenValid, pubs, unpublished, lastPub,
                   trackHist, lockVars>>

\* reload_files is past the last key: reload commits and returns; its
\* arguments and locals, and the history of the cycle, are dropped.
FinishReload ==
    /\ pc = "reading"
    /\ cursor = None
    /\ LET c == CommitAll(data, run_storage)
       IN  /\ data' = c.data
           /\ run_storage' = c.run
           /\ lastComplete' = c.run
    /\ pubs' = pubs + 1
    /\ unpublished' = 0
    /\ lastPub' = Some(now)
    /\ pc' = "idle"
    /\ new_file_set' = {}
    /\ n' = 0
    /\ last_commit_time' = 0
    /\ firstName' = None
    /\ repeated' = FALSE
    /\ cycleLog' = <<>>
    /\ openLog' = <<>>
    /\ stopped' = [f \in FileIds |-> None]
    /\ before' = None
    /\ UNCHANGED <<files, checksum, cursor, now, deadCause, handled, openCount,
                   seenValid, lifeLog, lastFileSet, lock, cpc, todo>>

\* reload_files is past the last key: reload calls commit_all.
EndOfFiles ==
    /\ pc = "reading"
    /\ cursor = None
    /\ pc' = "finishing"
    /\ cpc' = "acquire"
    /\ UNCHANGED <<loaderVars, new_file_set, cursor, n, last_commit_time, now,
                   cycleHist, lifeHist, trackHist, lock, todo, lastComplete>>

\* commit_all: run_data.write().expect("acquiring tags lock"). The call waits
\* for the lock; on a poisoned lock reload panics and holds nothing.
Acquire ==
    /\ cpc = "acquire"
    /\ CanWrite(lock)
    /\ IF WriteIsErr(lock)
       THEN /\ pc' = "panicked"
            /\ cpc' = "none"
            /\ lock' = lock
       ELSE /\ pc' = pc
            /\ cpc' = "start_time"
            /\ lock' = WriteLock(lock)
    /\ UNCHANGED <<loaderVars, new_file_set, cursor, n, last_commit_time, now,
                   cycleHist, lifeHist, trackHist, todo, lastComplete>>

\* commit_all: run.start_time = self.start_time.
WriteStartTime ==
    /\ cpc = "start_time"
    /\ run_storage' = [run_storage EXCEPT !.start_time = data.start_time]
    /\ todo' = DOMAIN data.time_series
    /\ cpc' = "series"
    /\ UNCHANGED <<files, checksum, data, reloadVars, now, cycleHist, lifeHist,
                   trackHist, lock, lastComplete>>

\* commit_all: one turn of the loop over time_series, which a HashMap yields
\* in any order.
CommitOne ==
    /\ cpc = "series"
    /\ \E tag \in todo :
          LET r == Commit(data.time_series[tag], tag, run_storage)
          IN  /\ data' = [data EXCEPT !.time_series[tag] = r.ts]
              /\ run_storage' = r.run
              /\ todo' = todo \ {tag}
    /\ UNCHANGED <<files, checksum, reloadVars, now, cycleHist, lifeHist,
                   trackHist, lock, cpc, lastComplete>>

\* commit_all returns and its guard is dropped. In the handler, reload sets
\* last_commit_time and reload_files reads on; at the end of reload, reload
\* returns.
Release ==
    /\ cpc = "series"
    /\ todo = {}
    /\ lock' = WriteUnlock(lock)
    /\ cpc' = "none"
    /\ lastComplete' = run_storage
    /\ pubs' = pubs + 1
    /\ unpublished' = 0
    /\ lastPub' = Some(now)
    /\ IF pc = "handler"
       THEN /\ pc' = "reading"
            /\ last_commit_time' = now
            /\ UNCHANGED <<new_file_set, n, cycleHist, before>>
       ELSE /\ pc' = "idle"
            /\ new_file_set' = {}
            /\ n' = 0
            /\ last_commit_time' = 0
            /\ firstName' = None
            /\ repeated' = FALSE
            /\ cycleLog' = <<>>
            /\ openLog' = <<>>
            /\ stopped' = [f \in FileIds |-> None]
            /\ before' = None
    /\ UNCHANGED <<loaderVars, cursor, now, deadCause, handled, openCount,
                   seenValid, lifeLog, lastFileSet, todo>>

\* A serving reader takes the read side of the lock: run_data.read().
ReaderLock ==
    /\ ~lock.writer
    /\ lock.readers < MaxReaders
    /\ lock' = [lock EXCEPT !.readers = @ + 1]
    /\ UNCHANGED <<loaderVars, reloadVars, now, cycleHist, lifeHist, trackHist,
                   cpc, todo, lastComplete>>

\* A serving reader drops its guard.
ReaderUnlock ==
    /\ lock.readers > 0
    /\ lock' = [lock EXCEPT !.readers = @ - 1]
    /\ UNCHANGED <<loaderVars, reloadVars, now, cycleHist, lifeHist, trackHist,
                   cpc, todo, lastComplete>>

\* Another holder of the writer side panics with the guard: the lock is
\* poisoned from then on.
PoisonLock ==
    /\ CanWrite(lock)
    /\ ~lock.poisoned
    /\ lock' = [lock EXCEPT !.poisoned = TRUE]
    /\ UNCHANGED <<loaderVars, reloadVars, now, cycleHist, lifeHist, trackHist,
                   cpc, todo, lastComplete>>

\* The host drops the loader, between two reloads or between two events.
DropLoader ==
    /\ pc \in {"idle", "reading"}
    /\ pc' = "dropped"
    /\ UNCHANGED <<loaderVars, new_file_set, cursor, n, last_commit_time, now,
                   cycleHist, lifeHist, trackHist, lockVars>>

\* The loader under every file list, open outcome and read outcome, with
\* reloads short enough that no clock check of reload is reached: the clock
\* plays no part and stands still.
Next ==
    \/ SetChecksum
    \/ Reload(SeqsUpTo(FileIds, MaxNames), FALSE)
    \/ SkipDead
    \/ ReadOk(Events, MaxHandled, FALSE, FALSE)
    \/ ReadTruncated
    \/ ReadError
    \/ FinishReload

Spec == Init /\ [][Next]_vars

\* The load cycle of a run of one event file under a stream of file version
\* records long enough to reach a clock check of reload, with the clock running.
PaceFileIds == {1}

NextPace ==
    \/ Tick(PaceTicks)
    \/ Reload(SeqsUpTo(PaceFileIds, MaxNames), FALSE)
    \/ SkipDead
    \/ ReadOk(PaceEvents, PaceHandled, FALSE, FALSE)
    \/ ReadTruncated
    \/ ReadError
    \/ FinishReload

SpecPace == Init /\ [][NextPace]_vars

\* The records a reader may yield in SpecData: summaries of one tag under every
\* payload variant, with and without metadata of their own; a record whose two
\* values share the tag; run metadata tagged with the same tag; a graph; and a
\* scalar with an invalid wall time.
CustomMetadata == Some([data_class |-> "Unknown", plugin_name |-> "custom"])
SummaryOf(w, s, values) ==
    MkEvent(w, s, [kind |-> "Summary", tag |-> "", values |-> values])
ValueOf(tag, md, payload) == [tag |-> tag, metadata |-> md, payload |-> payload]

DataEvents ==
    { SummaryOf(F64(1), 0, <<ValueOf("acc", None, "scalar")>>),
      SummaryOf(NaN, 0, <<ValueOf("acc", None, "scalar")>>),
      SummaryOf(F64(1), 0, <<ValueOf("acc", CustomMetadata, "blob")>>),
      SummaryOf(F64(1), 1, <<ValueOf("acc", None, "tensor")>>),
      SummaryOf(F64(1), 0, <<ValueOf("acc", None, "image")>>),
      SummaryOf(F64(1), 0, <<ValueOf("acc", None, "none")>>),
      SummaryOf(F64(2), 0, <<ValueOf("acc", CustomMetadata, "scalar"),
                             ValueOf("acc", None, "blob")>>),
      MkEvent(F64(2), 0, [kind |-> "TaggedRunMetadata", tag |-> "acc",
                          values |-> <<>>]),
      MkEvent(F64(2), 0, [kind |-> "GraphDef", tag |-> "", values |-> <<>>]) }

\* The loader of a run of one event file under those records, keeping the
\* history of all records handled and of the file sets; the clock stands still.
DataFileLists == {<<>>, <<1>>}

NextData ==
    \/ Reload(DataFileLists, TRUE)
    \/ SkipDead
    \/ ReadOk(DataEvents, DataHandled, TRUE, FALSE)
    \/ ReadTruncated
    \/ ReadError
    \/ FinishReload

SpecData == Init /\ [][NextData]_vars

\* The records a reader may yield in SpecSteps: scalars of one tag, two at
\* the same step with different wall times and one at the next step.
StepsEvents ==
    { SummaryOf(F64(1), 0, <<ValueOf("acc", None, "scalar")>>),
      SummaryOf(F64(2), 0, <<ValueOf("acc", None, "scalar")>>),
      SummaryOf(F64(2), 1, <<ValueOf("acc", None, "scalar")>>) }

\* The loader of a run of two event files whose records overlap in their
\* steps, keeping the history of all records handled and of the file sets;
\* the clock stands still. The filenames lists name each file at most once.
StepsFileLists == {<<>>, <<1>>, <<2>>, <<1, 2>>}

NextSteps ==
    \/ Reload(StepsFileLists, TRUE)
    \/ SkipDead
    \/ ReadOk(StepsEvents, StepsHandled, TRUE, FALSE)
    \/ ReadTruncated
    \/ ReadError
    \/ FinishReload

SpecSteps == Init /\ [][NextSteps]_vars

\* The records a reader may yield in SpecLock: a scalar, a file version record
\* with an earlier wall time, a Tensor summary, tagged run metadata, and a
\* record of no known variant with an invalid wall time.
LockEvents ==
    { SummaryOf(F64(2), 0, <<ValueOf("acc", None, "scalar")>>),
      MkEvent(F64(1), 0, [kind |-> "FileVersion", tag |-> "", values |-> <<>>]),
      SummaryOf(F64(1), 0, <<ValueOf("img", None, "tensor")>>),
      MkEvent(F64(2), 0, [kind |-> "TaggedRunMetadata", tag |-> "meta",
                          values |-> <<>>]),
      MkEvent(NaN, 0, [kind |-> "None", tag |-> "", values |-> <<>>]) }

\* The loader of a run of one event file with commit_all taken step by step,
\* next to serving readers of run_storage and a holder of its writer side that
\* may panic; the host may drop the loader. The clock stands still.
NextLock ==
    \/ Reload(DataFileLists, FALSE)
    \/ SkipDead
    \/ ReadOk(LockEvents, LockHandled, FALSE, TRUE)
    \/ ReadTruncated
    \/ ReadError
    \/ EndOfFiles
    \/ Acquire
    \/ WriteStartTime
    \/ CommitOne
    \/ Release
    \/ ReaderLock
    \/ ReaderUnlock
    \/ PoisonLock
    \/ DropLoader

SpecLock == Init /\ [][NextLock]_vars

\* The same loader, alone, under a stream of scalars long enough to reach a
\* clock check of reload, with the clock running.
NextLockPace ==
    \/ Tick(LockTicks)
    \/ Reload(DataFileLists, FALSE)
    \/ SkipDead
    \/ ReadOk({SummaryOf(F64(1), 0, <<ValueOf("acc", None, "scalar")>>)},
              PaceHandled, FALSE, TRUE)
    \/ ReadTruncated
    \/ ReadError
    \/ EndOfFiles
    \/ Acquire
    \/ WriteStartTime
    \/ CommitOne
    \/ Release

SpecLockPace == Init /\ [][NextLockPace]_vars

\* The records a reader may yield in SpecVariants: every variant read_event
\* tells apart, with a valid and with an invalid wall time: file version
\* records, a record of a variant the loader does not know, a record without
\* variant, summaries whose values have or lack a payload, graphs and tagged
\* run metadata.
VariantsEvents ==
    { MkEvent(F64(2), 0, [kind |-> "FileVersion", tag |-> "", values |-> <<>>]),
      MkEvent(NaN, 0, [kind |-> "FileVersion", tag |-> "", values |-> <<>>]),
      MkEvent(F64(1), 0, [kind |-> "SessionLog", tag |-> "", values |-> <<>>]),
      MkEvent(F64(1), 0, [kind |-> "None", tag |-> "", values |-> <<>>]),
      SummaryOf(F64(1), 0, <<ValueOf("acc", None, "none")>>),
      SummaryOf(F64(2), 1, <<ValueOf("acc", None, "none"),
                             ValueOf("acc", None, "scalar"),
                             ValueOf("img", None, "blob"),
                             ValueOf("acc", None, "scalar")>>),
      SummaryOf(NaN, 0, <<ValueOf("acc", None, "scalar")>>),
      MkEvent(F64(1), 0, [kind |-> "GraphDef", tag |-> "", values |-> <<>>]),
      MkEvent(NaN, 0, [kind |-> "GraphDef", tag |-> "", values |-> <<>>]),
      MkEvent(F64(2), 0, [kind |-> "TaggedRunMetadata", tag |-> "meta",
                          values |-> <<>>]),
      MkEvent(F64(-1), 0, [kind |-> "TaggedRunMetadata", tag |-> "meta",
                           values |-> <<>>]) }

\* The loader of a run of one event file under those records, keeping the
\* history of all records handled; the clock stands still.
NextVariants ==
    \/ Reload(DataFileLists, TRUE)
    \/ SkipDead
    \/ ReadOk(VariantsEvents, VariantsHandled, TRUE, FALSE)
    \/ ReadTruncated
    \/ ReadError
    \/ FinishReload

SpecVariants == Init /\ [][NextVariants]_vars

\* ------------------------------------------------------------------ claims

\* C1: a file id that is a key of the file map is a key of it after every
\* step, and an entry that is Dead is Dead after every step: the state of an
\* entry only ever changes from Active to Dead.
C1_KnownForeverDeadForever ==
    [][\A f \in DOMAIN files :
          /\ f \in DOMAIN files'
          /\ files[f].st = "Dead" => files'[f].st = "Dead"]_vars

\* A file that was Active, was omitted from a later filenames list, and is
\* listed again by the running reload: it is Dead.
C1_Witness ==
    /\ pc = "reading"
    /\ \E f \in new_file_set :
          /\ deadCause[f] = "omitted"
          /\ Count(openLog, f) = 0
          /\ IsDead(files, f)

\* C2: while a reload reads, every key of the file map that is not in its
\* filenames is Dead, and every record handled so far in the cycle came from
\* a file of its filenames.
C2_DiscardedDeadBeforeReading ==
    pc = "reading" =>
        /\ \A f \in DOMAIN files : f \notin new_file_set => files[f].st = "Dead"
        /\ \A i \in DOMAIN cycleLog : cycleLog[i][1] \in new_file_set

\* A reload that omits a file which was Active, and has handled a record of
\* another file.
C2_Witness ==
    /\ pc = "reading"
    /\ cycleLog # <<>>
    /\ \E f \in DOMAIN files :
          f \notin new_file_set /\ deadCause[f] = "omitted"

\* C3: the reconciliation of a reload makes every id of filenames that was no
\* key a key, calls logdir.open for it exactly once, and leaves the entry
\* Active if that open succeeded and Dead if it failed.
C3_NewFileOpenedOnce ==
    [][pc = "idle" /\ pc' = "reading" =>
          \A f \in new_file_set' \ DOMAIN files :
             /\ f \in DOMAIN files'
             /\ Count(openLog', f) = 1
             /\ \A i \in DOMAIN openLog' :
                   openLog'[i][1] = f =>
                      files'[f].st = IF openLog'[i][2] THEN "Active" ELSE "Dead"]_vars

\* A filenames list that repeats a new id whose open failed, right after
\* reconciliation.
C3_Witness ==
    /\ pc = "reading"
    /\ cycleLog = <<>>
    /\ repeated
    /\ \E i \in DOMAIN openLog : ~openLog[i][2] /\ IsDead(files, openLog[i][1])

\* C4: the reconciliation of a reload leaves the entry of every id of
\* filenames that is a key already as it is (state, reader position, reader
\* checksum setting) and does not call logdir.open for it; and logdir.open is
\* called at most once per file id over the life of the loader.
C4_KnownFileUntouched ==
    /\ [](\A f \in FileIds : openCount[f] <= 1)
    /\ [][pc = "idle" /\ pc' = "reading" =>
             \A f \in new_file_set' \cap DOMAIN files :
                /\ files'[f] = files[f]
                /\ Count(openLog', f) = 0]_vars

\* A reload that lists a known Active file whose reader has yielded records
\* and was opened under another checksum setting than the loader's current
\* one, and a known file whose open had failed.
C4_Witness ==
    /\ pc = "reading"
    /\ cycleLog = <<>>
    /\ openLog = <<>>
    /\ \E f \in new_file_set :
          /\ IsActive(files, f)
          /\ Unwrap(files[f].reader).pos > 0
          /\ Unwrap(files[f].reader).checksum # checksum
    /\ \E f \in new_file_set : IsDead(files, f) /\ deadCause[f] = "open"

\* C5: the records handled in a reload are in ascending order of file id and,
\* within a file, in the order the reader yielded them.
C5_KeyOrderThenStreamOrder ==
    \A i, j \in DOMAIN cycleLog :
       i < j =>
          \/ cycleLog[i][1] < cycleLog[j][1]
          \/ cycleLog[i][1] = cycleLog[j][1] /\ cycleLog[i][2] < cycleLog[j][2]

\* A reload whose filenames list names the greater id first, and which has
\* handled a record of the smaller id and then a record of the greater id.
C5_Witness ==
    /\ firstName = Some(2)
    /\ \E i, j \in DOMAIN cycleLog :
          i < j /\ cycleLog[i][1] = 1 /\ cycleLog[j][1] = 2

\* C6: reading of an Active file ends with the first outcome of read_event
\* that is no record: on Truncated the entry is as it was, and is so when
\* reload returns; on any other error the entry is Dead, and is so when reload
\* returns. A record neither ends the reading of its file nor changes the state
\* of the entry, and reload_files leaves an Active file only on those outcomes.
C6_StopOnTruncatedOrError ==
    [][/\ \A f \in FileIds :
             stopped[f] = None /\ stopped'[f] # None =>
                IF Unwrap(stopped'[f]).how = "truncated"
                THEN IsActive(files, f) /\ files'[f] = files[f]
                ELSE IsDead(files', f)
       /\ pc = "reading" /\ pc' = "idle" =>
             \A f \in FileIds :
                stopped[f] # None =>
                   IF Unwrap(stopped[f]).how = "truncated"
                   THEN files'[f] = Unwrap(stopped[f]).entry /\ IsActive(files', f)
                   ELSE IsDead(files', f)
       /\ n' = n + 1 => cursor' = cursor /\ IsActive(files', Unwrap(cursor))
       /\ pc = "reading" /\ pc' = "reading" /\ cursor' # cursor
             /\ IsActive(files, Unwrap(cursor))
          => stopped'[Unwrap(cursor)] # None]_vars

\* A reload about to return, in which one file yielded a record and then a
\* truncated tail, and another file a read error.
C6_Witness ==
    /\ pc = "reading"
    /\ cursor = None
    /\ \E f, g \in FileIds :
          /\ stopped[f] # None /\ Unwrap(stopped[f]).how = "truncated"
          /\ \E i \in DOMAIN cycleLog : cycleLog[i][1] = f
          /\ IsActive(files, f)
          /\ stopped[g] # None /\ Unwrap(stopped[g]).how = "error"
          /\ IsDead(files, g)

\* The reservoirs of the series that have a sink hold nothing staged, and
\* their sinks hold the retained samples.
AllPublished(d, run) ==
    \A tag \in DOMAIN d.time_series :
       LET ts == d.time_series[tag]
           store == IF ts.data_class = "Scalar" THEN run.scalars
                    ELSE run.blob_sequences
       IN  ts.data_class \in {"Scalar", "BlobSequence"} =>
              /\ ts.rsv.staged = <<>>
              /\ tag \in DOMAIN store
              /\ Len(store[tag].basin) = Len(ts.rsv.kept)

\* C7: the step by which reload returns is a publication made after the last
\* record handled in the cycle: the cycle has published at least once, no
\* handled record is unpublished, run_storage.start_time is the loader's
\* start_time and nothing is left staged for a series that has a sink.
C7_PublishedOnReturn ==
    [][pc = "reading" /\ pc' = "idle" =>
          /\ pubs' >= 1
          /\ unpublished' = 0
          /\ run_storage'.start_time = data'.start_time
          /\ AllPublished(data', run_storage')]_vars

\* A loader whose reload has returned after handling records with valid wall
\* times, a scalar among them.
C7_Witness ==
    /\ pc = "idle"
    /\ pubs >= 1
    /\ handled > 0
    /\ IsSome(data.start_time)
    /\ run_storage.start_time = data.start_time
    /\ "acc" \in DOMAIN run_storage.scalars

\* C8, as claimed: at a clock check (after every 100th event of the cycle), if
\* at least COMMIT_INTERVAL has elapsed since the loader's previous
\* publication, the handler publishes and resets last_commit_time.
C8_SincePreviousPublication ==
    [][(/\ n' = n + 1
        /\ n' % CheckEvery = 0
        /\ IsSome(lastPub)
        /\ now - Unwrap(lastPub) >= COMMIT_INTERVAL)
       => /\ pubs' = pubs + 1
          /\ last_commit_time' = now]_vars

\* C8, amended: at a clock check, if at least COMMIT_INTERVAL has elapsed
\* since last_commit_time (the start of the reading phase of this reload, or
\* the previous publication made in this reload), the handler publishes before
\* the next record is read and resets last_commit_time to that publication.
C8_SinceLastCommitTime ==
    [][(/\ n' = n + 1
        /\ n' % CheckEvery = 0
        /\ now - last_commit_time >= COMMIT_INTERVAL)
       => /\ pubs' = pubs + 1
          /\ unpublished' = 0
          /\ run_storage'.start_time = data'.start_time
          /\ last_commit_time' = now
          /\ lastPub' = Some(now)]_vars

\* A reload that has just published at its 100th event, COMMIT_INTERVAL after
\* it began to read.
C8_Witness ==
    /\ pc = "reading"
    /\ n = CheckEvery
    /\ pubs = 1
    /\ unpublished = 0
    /\ last_commit_time = now
    /\ now >= COMMIT_INTERVAL
    /\ IsSome(run_storage.start_time)

\* C9: start_time is None exactly when no record with a valid wall time has
\* been handled, and is otherwise the least valid wall time handled so far.
C9_StartTimeIsMinimum ==
    /\ data.start_time = None <=> seenValid = {}
    /\ seenValid # {} => data.start_time = Some(Min(seenValid))

\* Two Tensor summaries have been handled, the second with the earlier wall
\* time: start_time has decreased to it.
C9_Witness ==
    /\ DOMAIN data.time_series = {"img"}
    /\ Len(data.time_series["img"].rsv.staged) = 2
    /\ data.time_series["img"].rsv.staged[1].value.wall_time = 2
    /\ data.time_series["img"].rsv.staged[2].value.wall_time = 1
    /\ data.start_time = Some(1)

\* The last record handled in this reload had an invalid wall time.
LastInvalid(log) == log # <<>> /\ ~log[Len(log)][3]

\* C10: handling a record whose wall time is invalid changes neither
\* start_time nor the time_series map, leaves the entry of its file Active and
\* leaves reload_files at that file.
C10_InvalidWallTimeDropped ==
    [][n' = n + 1 /\ LastInvalid(cycleLog') =>
          /\ data'.start_time = data.start_time
          /\ DOMAIN data'.time_series = DOMAIN data.time_series
          /\ pubs' = pubs => data'.time_series = data.time_series
          /\ IsActive(files', Unwrap(cursor))
          /\ cursor' = cursor]_vars

\* A reload that handled a record with an invalid wall time and then a scalar
\* with a valid wall time from the same file, which is staged.
C10_Witness ==
    /\ Len(cycleLog) = 2
    /\ cycleLog[1][1] = cycleLog[2][1]
    /\ ~cycleLog[1][3]
    /\ cycleLog[2][3]
    /\ "acc" \in DOMAIN data.time_series
    /\ IsSome(data.start_time)

\* The <<tag, metadata>> pairs a record introduces, in the order of its
\* values: what initial_metadata gives for each sample the record carries.
Introduced(e) ==
    IF WallTimeNew(e.wall_time) = None THEN <<>>
    ELSE CASE e.kind = "GraphDef" -> << <<GraphTag, GraphDefInitialMetadata>> >>
           [] e.kind = "TaggedRunMetadata" ->
                << <<e.tag, TaggedRunMetadataInitialMetadata>> >>
           [] e.kind = "Summary" ->
                LET present == SelectSeq(e.values, LAMBDA v : v.payload # "none")
                IN  [i \in DOMAIN present |->
                       <<present[i].tag,
                         SummaryInitialMetadata(present[i].payload,
                                                present[i].metadata)>>]
           [] OTHER -> <<>>

RECURSIVE Introductions(_)
Introductions(log) ==
    IF log = <<>> THEN <<>>
    ELSE Introduced(Head(log)[3]) \o Introductions(Tail(log))

SeenTags(log) == {p[1] : p \in Range(Introductions(log))}
\* The metadata derived from the first record of the log that introduced tag.
FirstSight(tag, log) ==
    LET all == Introductions(log)
    IN  all[Min({i \in DOMAIN all : all[i][1] = tag})][2]

\* C11: the tags staged are the tags introduced by the records handled so
\* far; for each of them the metadata of the staged series, and of the tag's
\* entry in either store of the commit when there is one, is the metadata
\* derived from the first record that introduced the tag; and no step removes
\* an entry of the commit or changes its metadata.
C11_MetadataOfFirstSight ==
    /\ [](/\ DOMAIN data.time_series = SeenTags(lifeLog)
          /\ \A tag \in SeenTags(lifeLog) :
                LET first == FirstSight(tag, lifeLog)
                IN  /\ data.time_series[tag].metadata = first
                    /\ tag \in DOMAIN run_storage.scalars =>
                          run_storage.scalars[tag].metadata = first
                    /\ tag \in DOMAIN run_storage.blob_sequences =>
                          run_storage.blob_sequences[tag].metadata = first)
    /\ [][/\ \A tag \in DOMAIN run_storage.scalars :
                /\ tag \in DOMAIN run_storage'.scalars
                /\ run_storage'.scalars[tag].metadata =
                      run_storage.scalars[tag].metadata
          /\ \A tag \in DOMAIN run_storage.blob_sequences :
                /\ tag \in DOMAIN run_storage'.blob_sequences
                /\ run_storage'.blob_sequences[tag].metadata =
                      run_storage.blob_sequences[tag].metadata]_vars

\* A tag introduced by a scalar summary without metadata, then carried at the
\* same step by a record of another variant that would give it other metadata,
\* and published: the entry in scalars has the scalar metadata.
C11_Witness ==
    /\ pc = "idle"
    /\ Len(lifeLog) >= 2
    /\ "acc" \in DOMAIN run_storage.scalars
    /\ Len(run_storage.scalars["acc"].basin) = 1
    /\ run_storage.scalars["acc"].metadata.plugin_name = "scalars"
    /\ \E p \in Range(Introduced(lifeLog[Len(lifeLog)][3])) :
          p[1] = "acc" /\ p[2] # run_storage.scalars["acc"].metadata
    /\ Len(data.time_series["acc"].rsv.kept) = 1
    /\ data.time_series["acc"].rsv.kept[1].value.payload.payload # "scalar"

\* The samples a handled record <<file, index, event>> hands to staging, in
\* the order of its values.
SamplesOf(entry) ==
    LET e == entry[3]
        intro == Introduced(e)
    IN  [i \in DOMAIN intro |->
           [file |-> entry[1], index |-> entry[2], pos |-> i,
            tag |-> intro[i][1], step |-> e.step,
            wall_time |-> Unwrap(WallTimeNew(e.wall_time))]]

RECURSIVE Samples(_)
Samples(log) ==
    IF log = <<>> THEN <<>> ELSE SamplesOf(Head(log)) \o Samples(Tail(log))

\* The series of the tag in the commit; empty when the tag is in no store.
Committed(run, tag) ==
    CASE tag \in DOMAIN run.scalars -> run.scalars[tag].basin
      [] tag \in DOMAIN run.blob_sequences -> run.blob_sequences[tag].basin
      [] OTHER -> <<>>

\* The series has exactly one point at the step, with the wall time.
OnePointAt(basin, step, wall_time) ==
    /\ Cardinality({k \in DOMAIN basin : basin[k].step = step}) = 1
    /\ \A k \in DOMAIN basin : basin[k].step = step => basin[k].wall_time = wall_time

\* Sample a comes before sample b in its file, or in a file of smaller id.
Precedes(a, b) ==
    \/ a.file < b.file
    \/ a.file = b.file /\ a.index < b.index
    \/ a.file = b.file /\ a.index = b.index /\ a.pos < b.pos

\* C12, as claimed: once reload has returned, for every sample of a file and
\* every sample of the same tag and step of a file of greater id (the last
\* such sample of the greatest such file), the series of the tag in the commit
\* has exactly one point at that step, and it has the wall time of the sample
\* of the greater file.
C12_GreaterFileWins ==
    pc = "idle" =>
       LET sm == Samples(lifeLog)
       IN  \A i, j \in DOMAIN sm :
              /\ sm[i].file < sm[j].file
              /\ sm[i].tag = sm[j].tag /\ sm[i].step = sm[j].step
              /\ \A k \in DOMAIN sm :
                    sm[k].tag = sm[j].tag /\ sm[k].step = sm[j].step /\ k # j
                    => Precedes(sm[k], sm[j])
              => OnePointAt(Committed(run_storage, sm[i].tag), sm[i].step,
                            sm[j].wall_time)

\* C12, amended: once reload has returned, the series in the commit of every
\* tag first seen as Scalar or BlobSequence has exactly one point at every step
\* a sample of the tag was staged at, with the wall time of the sample staged
\* last at that step; and among the samples of a tag and step staged within
\* one reload, the one staged last is the last one of the file of greatest id.
C12_LastStagedWins ==
    /\ [](pc = "idle" =>
            LET sm == Samples(lifeLog)
            IN  \A i \in DOMAIN sm :
                   /\ FirstSight(sm[i].tag, lifeLog).data_class
                         \in {"Scalar", "BlobSequence"}
                   /\ \A j \in DOMAIN sm :
                         sm[j].tag = sm[i].tag /\ sm[j].step = sm[i].step => j <= i
                   => OnePointAt(Committed(run_storage, sm[i].tag), sm[i].step,
                                 sm[i].wall_time))
    /\ [][pc = "reading" /\ pc' = "idle" =>
            LET sm == Samples(SubSeq(lifeLog, Len(lifeLog) - Len(cycleLog) + 1,
                                     Len(lifeLog)))
            IN  \A i \in DOMAIN sm :
                   /\ FirstSight(sm[i].tag, lifeLog).data_class
                         \in {"Scalar", "BlobSequence"}
                   /\ \A j \in DOMAIN sm :
                         sm[j].tag = sm[i].tag /\ sm[j].step = sm[i].step /\ j # i
                         => Precedes(sm[j], sm[i])
                   => OnePointAt(Committed(run_storage', sm[i].tag), sm[i].step,
                                 sm[i].wall_time)]_vars

\* One reload has handled two scalars of file 1, at steps 0 and 1, and then a
\* scalar at step 0 with a later wall time of file 2, and has returned: the
\* series has two points, and the one at step 0 has the wall time of file 2's.
C12_Witness ==
    /\ pc = "idle"
    /\ pubs = 1
    /\ Len(lifeLog) = 3
    /\ lifeLog[1][1] = 1 /\ lifeLog[1][3].step = 0
    /\ lifeLog[1][3].wall_time = F64(1)
    /\ lifeLog[2][1] = 1 /\ lifeLog[2][3].step = 1
    /\ lifeLog[3][1] = 2 /\ lifeLog[3][3].step = 0
    /\ lifeLog[3][3].wall_time = F64(2)
    /\ Len(Committed(run_storage, "acc")) = 2
    /\ OnePointAt(Committed(run_storage, "acc"), 0, 2)

\* The handled records in the order one reload over the whole content hands
\* them to staging: by file id, and within a file by position.
RECURSIVE InFileOrder(_)
InFileOrder(entries) ==
    IF entries = {} THEN <<>>
    ELSE LET first == CHOOSE x \in entries :
                         \A y \in entries :
                            x[1] < y[1] \/ (x[1] = y[1] /\ x[2] <= y[2])
         IN  <<first>> \o InFileOrder(entries \ {first})

RECURSIVE StageAll(_, _)
StageAll(d, log) ==
    IF log = <<>> THEN d ELSE StageAll(ReadEvent(d, Head(log)[3]), Tail(log))

\* run_storage after a fresh loader has handled the records of the log in one
\* reload, into an empty commit.
SingleCall(log) ==
    CommitAll(StageAll(RunLoaderDataDefault, log), RunDataDefault).run

\* No file has been omitted, has failed to open or has given a read error.
NoFailure == \A f \in FileIds : deadCause[f] = "none"

\* C13, as claimed: when a reload returns that was called with the file set
\* of the reload before it, and every file has so far ended every reading on
\* a truncated tail, run_storage is what one reload over all the records
\* handled so far, taken file by file, leaves in an empty commit.
C13_SplitEqualsWhole ==
    [][/\ pc = "reading" /\ pc' = "idle"
       /\ NoFailure
       /\ IsSome(before) /\ Unwrap(before).file_set = Some(new_file_set)
       => run_storage' = SingleCall(InFileOrder(Range(lifeLog)))]_vars

\* C13, amended: the same, when the reloads so far have handled the records
\* in the order one reload takes them (file by file).
C13_SplitEqualsWholeInOrder ==
    [][pc = "reading" /\ pc' = "idle" /\ NoFailure
          /\ lifeLog = InFileOrder(Range(lifeLog))
       => run_storage' = SingleCall(lifeLog)]_vars

\* A reload about to return after handling the rest of file 2, an earlier
\* reload having handled all of file 1 and the beginning of file 2.
C13_Witness ==
    /\ pc = "reading"
    /\ cursor = None
    /\ NoFailure
    /\ Len(lifeLog) = 3
    /\ Len(cycleLog) = 1
    /\ lifeLog[1][1] = 1
    /\ lifeLog[2][1] = 2
    /\ lifeLog[3][1] = 2
    /\ lifeLog[2][3].step = lifeLog[3][3].step
    /\ lifeLog[2][3].wall_time # lifeLog[3][3].wall_time
    /\ IsSome(before) /\ Unwrap(before).file_set = Some(new_file_set)
    /\ data.time_series["acc"].rsv.staged # <<>>
    /\ data.time_series["acc"].rsv.kept # <<>>

\* The running reload was called with the file set of the reload before it
\* and no file has grown: every reading so far ended at once on a truncated
\* tail.
SameFilesNoGrowth ==
    /\ pc = "reading"
    /\ IsSome(before) /\ Unwrap(before).file_set = Some(new_file_set)
    /\ cycleLog = <<>>
    /\ \A f \in FileIds :
          stopped[f] # None => Unwrap(stopped[f]).how = "truncated"

\* C14: a reload called with the file set of the reload before it, in which
\* no file has grown, returns with the file map, the staged data (start_time
\* and every series) and run_storage as they were before the call, after
\* publishing once and without calling logdir.open.
C14_ReloadIdempotent ==
    [][SameFilesNoGrowth /\ pc' = "idle"
       => /\ files' = Unwrap(before).files
          /\ data' = Unwrap(before).data
          /\ run_storage' = Unwrap(before).run
          /\ openLog = <<>>
          /\ pubs' = 1]_vars

\* Such a reload about to return: of its two files one is Active, with
\* records read by an earlier reload and published, and one is Dead.
C14_Witness ==
    /\ SameFilesNoGrowth
    /\ cursor = None
    /\ new_file_set = {1, 2}
    /\ \E f, g \in new_file_set :
          /\ IsActive(files, f) /\ Unwrap(files[f].reader).pos = 2
          /\ stopped[f] # None
          /\ IsDead(files, g)
    /\ Len(Committed(run_storage, "acc")) = 2
    /\ IsSome(data.start_time)

\* C15: whenever a serving reader holds the read side of the lock, and
\* whenever the loader is outside commit_all or waits for the lock (so also
\* once it has been dropped, between two reloads or between two events),
\* run_storage is as the last whole commit_all left it (as the commit was
\* created, before the first): no state with the start_time of a publication
\* but not all of its series, or the reverse, is there to be seen.
C15_PublicationAtomic ==
    /\ lock.readers > 0 => run_storage = lastComplete
    /\ cpc \in {"none", "acquire"} => run_storage = lastComplete

\* A serving reader holds the read side after a publication with a series,
\* while the loader, with a new start_time staged, waits for the writer side.
C15_Witness ==
    /\ lock.readers > 0
    /\ cpc = "acquire"
    /\ DOMAIN lastComplete.scalars # {}
    /\ data.start_time # run_storage.start_time
    /\ run_storage = lastComplete

\* C16: reload panics only in commit_all's acquisition of a poisoned lock,
\* and that step changes neither run_storage nor the lock; an acquisition of a
\* poisoned lock always panics and one of a sound lock never does. So no
\* failed open, truncated tail, read error, invalid wall time, unknown variant
\* or Tensor series makes reload panic.
C16_PanicIffPoisoned ==
    [][/\ pc # "panicked" /\ pc' = "panicked"
          => /\ cpc = "acquire"
             /\ lock.poisoned
             /\ run_storage' = run_storage
             /\ lock' = lock
       /\ cpc = "acquire" /\ cpc' # "acquire" /\ lock.poisoned
          => pc' = "panicked"
       /\ cpc = "acquire" /\ cpc' # "acquire" /\ ~lock.poisoned
          => pc' = pc /\ lock'.writer]_vars

\* A reload that met a read error after staging a record has panicked at its
\* final publication, the lock being poisoned: what it staged is unpublished.
C16_Witness ==
    /\ pc = "panicked"
    /\ lock.poisoned
    /\ \E f \in FileIds : deadCause[f] = "read" /\ stopped[f] # None
    /\ IsSome(data.start_time)
    /\ run_storage = RunDataDefault

\* C18: the writer side is not held while no commit_all runs; the steps that
\* open or read a file (reconciliation, a record, a truncated tail, a read
\* error) happen with the writer side free; run_storage changes only with the
\* writer side held; and every publication begins by taking the writer side
\* and ends by releasing it.
C18_NoReadUnderLock ==
    /\ [](pc \in {"idle", "reading"} => ~lock.writer)
    /\ [][/\ \/ pc = "idle" /\ pc' = "reading"
             \/ n' = n + 1
             \/ pc = "reading" /\ pc' = "reading" /\ stopped' # stopped
             => ~lock.writer /\ ~lock'.writer
          /\ run_storage' # run_storage => lock.writer /\ lock'.writer
          /\ cpc = "acquire" /\ cpc' = "start_time" => ~lock.writer /\ lock'.writer
          /\ pubs' = pubs + 1 => lock.writer /\ ~lock'.writer]_vars

\* The handler has published at the 100th record of a reload and the lock is
\* free again: reload_files is about to read the next record.
C18_Witness ==
    /\ pc = "reading"
    /\ n = CheckEvery
    /\ pubs = 1
    /\ lock = RwLockNew
    /\ IsSome(cursor)
    /\ IsActive(files, Unwrap(cursor))
    /\ lastComplete = run_storage
    /\ Len(Committed(run_storage, "acc")) = 1

\* The data class captured when tag was first seen.
FirstClass(tag) == DataClassFromI32(FirstSight(tag, lifeLog))

\* C17: for every tag seen, by the data class of its first sight: a Scalar
\* tag has no entry in blob_sequences and, once a publication has followed the
\* records handled, one in scalars; a BlobSequence tag has none in scalars
\* and, once published, one in blob_sequences; a Tensor or Unknown tag has an
\* entry in neither store, whatever variants later records of the tag carry.
\* The stores hold no other tags, and start_time is set as soon as any tag
\* has been seen and is published with the rest.
C17_SinkByFirstClass ==
    /\ \A tag \in SeenTags(lifeLog) :
          LET class == FirstClass(tag)
              inScalars == tag \in DOMAIN run_storage.scalars
              inBlobs == tag \in DOMAIN run_storage.blob_sequences
          IN  /\ class = "Scalar" =>
                    ~inBlobs /\ (unpublished = 0 => inScalars)
              /\ class = "BlobSequence" =>
                    ~inScalars /\ (unpublished = 0 => inBlobs)
              /\ class \in {"Tensor", "Unknown"} => ~inScalars /\ ~inBlobs
    /\ (DOMAIN run_storage.scalars \cup DOMAIN run_storage.blob_sequences)
          \subseteq SeenTags(lifeLog)
    /\ SeenTags(lifeLog) # {} =>
          /\ IsSome(data.start_time)
          /\ unpublished = 0 => run_storage.start_time = data.start_time

\* A tag first seen as Tensor, with later records of the tag carrying a
\* scalar and a blob sequence, after the publication at the end of a reload:
\* both stores are empty and start_time is published.
C17_Witness ==
    /\ pc = "idle"
    /\ unpublished = 0
    /\ "acc" \in SeenTags(lifeLog)
    /\ FirstClass("acc") = "Tensor"
    /\ \E i, j \in DOMAIN lifeLog :
          /\ \E p \in Range(Introduced(lifeLog[i][3])) :
                p[1] = "acc" /\ p[2].data_class = "Scalar"
          /\ \E p \in Range(Introduced(lifeLog[j][3])) :
                p[1] = "acc" /\ p[2].data_class = "BlobSequence"
    /\ run_storage.scalars = EmptyMap
    /\ run_storage.blob_sequences = EmptyMap
    /\ run_storage.start_time = Some(1)

\* The indexes, within file f, of the records of f handed to the handler, in
\* the order of handling.
IndexesOf(log, f) ==
    LET own == SelectSeq(log, LAMBDA r : r[1] = f)
    IN  [i \in DOMAIN own |-> own[i][2]]

\* C19: the records of a file handed to staging since construction are its
\* records 1, 2, 3, ... in that order, each once, and an Active entry's reader
\* stands after the last of them; a stop on a truncated tail leaves the entry
\* and its reader as they were; and once an entry is Dead it stays Dead and
\* no further record of its file is handed over, whatever later reloads list.
C19_EachRecordOnce ==
    /\ [](\A f \in FileIds :
            LET idx == IndexesOf(lifeLog, f)
            IN  /\ \A i \in DOMAIN idx : idx[i] = i
                /\ IsActive(files, f) => Unwrap(files[f].reader).pos = Len(idx)
                /\ f \notin DOMAIN files => idx = <<>>)
    /\ [][\A f \in FileIds :
            /\ IsDead(files, f) =>
                  IsDead(files', f) /\ IndexesOf(lifeLog', f) = IndexesOf(lifeLog, f)
            /\ (/\ stopped[f] = None
                /\ stopped'[f] # None
                /\ Unwrap(stopped'[f]).how = "truncated")
                  => files'[f] = files[f] /\ IsActive(files', f)]_vars

\* A first reload read record 1 of file 1 up to a truncated tail and record 1
\* of file 2 up to a read error; a second reload listing both files has read
\* record 2 of file 1 and nothing of file 2, and has returned.
C19_Witness ==
    /\ pc = "idle"
    /\ lastFileSet = Some({1, 2})
    /\ Len(lifeLog) = 3
    /\ <<lifeLog[1][1], lifeLog[1][2]>> = <<1, 1>>
    /\ <<lifeLog[2][1], lifeLog[2][2]>> = <<2, 1>>
    /\ <<lifeLog[3][1], lifeLog[3][2]>> = <<1, 2>>
    /\ IsActive(files, 1)
    /\ IsDead(files, 2)
    /\ deadCause[2] = "read"

\* Reading of file f has ended in this reload.
HasStopped(f) == stopped[f] # None

\* C20: within a reload, while reload_files is at a key, no file from that key
\* on has stopped and every Active entry before it has; a stop (truncated tail
\* or read error) changes nothing staged or published and leaves the reload
\* running; so does a reconciliation, failed opens included. The reload returns
\* only when every entry is either Dead, or Active and stopped on a truncated
\* tail in this reload, and the returning step publishes all that is staged.
C20_FailureDoesNotEndCycle ==
    /\ [](pc = "reading" =>
            \A f \in DOMAIN files :
               /\ (IsSome(cursor) /\ f >= Unwrap(cursor)) => ~HasStopped(f)
               /\ (IsActive(files, f) /\ (cursor = None \/ f < Unwrap(cursor)))
                     => HasStopped(f) /\ Unwrap(stopped[f]).how = "truncated"
               /\ HasStopped(f) =>
                     /\ Unwrap(stopped[f]).entry.st = "Active"
                     /\ Unwrap(stopped[f]).how = "error" <=> IsDead(files, f))
    /\ [][/\ (pc = "reading" /\ IsSome(cursor) /\ stopped' # stopped) =>
                /\ pc' = "reading"
                /\ data' = data
                /\ run_storage' = run_storage
                /\ cycleLog' = cycleLog
                /\ \A g \in DOMAIN files :
                      (g > Unwrap(cursor) /\ IsActive(files, g)) =>
                         /\ IsActive(files', g)
                         /\ IsSome(cursor')
                         /\ Unwrap(cursor') <= g
          /\ (pc = "idle" /\ pc' = "reading") =>
                data' = data /\ run_storage' = run_storage
          /\ (pc = "reading" /\ pc' = "idle") =>
                /\ cursor = None
                /\ \A f \in DOMAIN files : IsActive(files, f) => HasStopped(f)
                /\ pubs' = pubs + 1
                /\ run_storage' = CommitAll(data, run_storage).run]_vars

\* reload_files is past the last key of a reload in which file 1 gave a
\* record, which was staged, and then a read error, and file 2 then gave a
\* record and a truncated tail: both records are staged and not yet published.
C20_Witness ==
    /\ pc = "reading"
    /\ cursor = None
    /\ Len(cycleLog) = 2
    /\ cycleLog[1][1] = 1 /\ cycleLog[1][3]
    /\ cycleLog[2][1] = 2 /\ cycleLog[2][3]
    /\ HasStopped(1) /\ Unwrap(stopped[1]).how = "error"
    /\ HasStopped(2) /\ Unwrap(stopped[2]).how = "truncated"
    /\ IsDead(files, 1)
    /\ IsActive(files, 2)
    /\ unpublished = 2
    /\ IsSome(data.start_time)
    /\ run_storage = RunDataDefault

\* The samples staged and not yet committed under tag t.
StagedOf(d, t) ==
    IF t \in DOMAIN d.time_series THEN d.time_series[t].rsv.staged ELSE <<>>

\* The record emits no time series: a file version record, a record of an
\* unrecognised or absent variant, or a Summary none of whose values has a
\* payload.
NoSeries(e) ==
    \/ e.kind \notin {"GraphDef", "TaggedRunMetadata", "Summary"}
    \/ e.kind = "Summary" /\ \A i \in DOMAIN e.values : e.values[i].payload = "none"

\* The tags a record names, and the number of samples its variant carries
\* for tag t.
TagsOf(e) ==
    CASE e.kind = "GraphDef" -> {GraphTag}
      [] e.kind = "TaggedRunMetadata" -> {e.tag}
      [] e.kind = "Summary" -> {e.values[i].tag : i \in DOMAIN e.values}
      [] OTHER -> {}
CarriedFor(e, t) ==
    CASE e.kind = "GraphDef" -> IF t = GraphTag THEN 1 ELSE 0
      [] e.kind = "TaggedRunMetadata" -> IF t = e.tag THEN 1 ELSE 0
      [] e.kind = "Summary" ->
            Cardinality({i \in DOMAIN e.values :
                            e.values[i].tag = t /\ e.values[i].payload # "none"})
      [] OTHER -> 0

\* The step has handled record e without publishing, and for every tag the
\* samples staged grew by exactly the samples e carries for it (by none when
\* validOnly and the wall time of e is invalid), each at the step of e; no
\* other tag was created, and nothing retained or captured was changed.
StagedWhatItCarries(e, validOnly) ==
    LET valid == WallTimeNew(e.wall_time) # None
        count(t) == IF validOnly /\ ~valid THEN 0 ELSE CarriedFor(e, t)
    IN  /\ DOMAIN data'.time_series =
              DOMAIN data.time_series \cup {t \in TagsOf(e) : count(t) > 0}
        /\ \A t \in DOMAIN data'.time_series :
              LET old == StagedOf(data, t)
                  new == StagedOf(data', t)
              IN  /\ Len(new) = Len(old) + count(t)
                  /\ SubSeq(new, 1, Len(old)) = old
                  /\ \A i \in (Len(old) + 1)..Len(new) :
                        /\ new[i].step = e.step
                        /\ valid => new[i].value.wall_time =
                                       Unwrap(WallTimeNew(e.wall_time))
                  /\ t \in DOMAIN data.time_series =>
                        /\ data'.time_series[t].rsv.kept = data.time_series[t].rsv.kept
                        /\ data'.time_series[t].metadata = data.time_series[t].metadata

\* The step has handled record e, which emits no time series: the map of
\* time series and the commit are as before, and so is the whole staged state
\* but for start_time.
ChangedStartTimeAtMost(e) ==
    /\ data'.time_series = data.time_series
    /\ run_storage' = run_storage
    /\ [data' EXCEPT !.start_time = data.start_time] = data

\* C21, as claimed: a handled record that emits no time series changes at
\* most start_time; a GraphDef record, a TaggedRunMetadata record and a
\* Summary record, whatever its wall time, stage exactly the samples they
\* carry, one to the graph tag, one to the record's tag, one per value with a
\* payload to the value's tag.
C21_StagesByVariant ==
    [][(Len(lifeLog') = Len(lifeLog) + 1 /\ pubs' = pubs) =>
          LET e == lifeLog'[Len(lifeLog')][3]
          IN  /\ NoSeries(e) => ChangedStartTimeAtMost(e)
              /\ StagedWhatItCarries(e, FALSE)]_vars

\* C21, amended: a handled record that emits no time series changes at most
\* start_time; a record with an invalid wall time, of whatever variant,
\* changes nothing staged or published; a GraphDef, TaggedRunMetadata or
\* Summary record with a valid wall time stages exactly the samples it
\* carries. Stated of the steps in which the handler does not publish.
C21_StagesByVariantIfValid ==
    [][(Len(lifeLog') = Len(lifeLog) + 1 /\ pubs' = pubs) =>
          LET e == lifeLog'[Len(lifeLog')][3]
          IN  /\ NoSeries(e) => ChangedStartTimeAtMost(e)
              /\ WallTimeNew(e.wall_time) = None =>
                    data' = data /\ run_storage' = run_storage
              /\ StagedWhatItCarries(e, TRUE)]_vars

\* A Summary of four values, one without payload, two of tag acc and one of
\* tag img, has been staged with wall time 2, and then a record of an
\* unrecognised variant with wall time 1 was handled: two samples are staged
\* under acc, one under img, and start_time has gone down to 1.
C21_Witness ==
    /\ Len(lifeLog) = 2
    /\ lifeLog[1][3].kind = "Summary"
    /\ Len(lifeLog[1][3].values) = 4
    /\ lifeLog[2][3].kind = "SessionLog"
    /\ DOMAIN data.time_series = {"acc", "img"}
    /\ Len(StagedOf(data, "acc")) = 2
    /\ Len(StagedOf(data, "img")) = 1
    /\ data.start_time = Some(1)
    /\ run_storage = RunDataDefault

\* The tags that have an entry in a store of the commit.
CommittedTags(run) == DOMAIN run.scalars \cup DOMAIN run.blob_sequences

\* C22: a step in which an entry becomes Dead, by a read error or because a
\* reload omits its file, changes nothing staged and nothing published; no
\* step removes a tag from time_series or from a store of the commit, or
\* takes start_time back; and whenever all records handled have been
\* published, the series of the commit has a point at every step at which a
\* sample of a file now Dead was staged.
C22_DeadNeverRetracts ==
    /\ [][/\ (\E f \in DOMAIN files : IsActive(files, f) /\ IsDead(files', f))
                => data' = data /\ run_storage' = run_storage
          /\ DOMAIN data.time_series \subseteq DOMAIN data'.time_series
          /\ DOMAIN run_storage.scalars \subseteq DOMAIN run_storage'.scalars
          /\ DOMAIN run_storage.blob_sequences
                \subseteq DOMAIN run_storage'.blob_sequences
          /\ IsSome(data.start_time) => IsSome(data'.start_time)
          /\ IsSome(run_storage.start_time) => IsSome(run_storage'.start_time)]_vars
    /\ [](LET sm == Samples(lifeLog)
          IN  \A i \in DOMAIN sm :
                 IsDead(files, sm[i].file) =>
                    /\ sm[i].tag \in DOMAIN data.time_series
                    /\ unpublished = 0 =>
                          /\ sm[i].tag \in CommittedTags(run_storage)
                          /\ \E k \in DOMAIN Committed(run_storage, sm[i].tag) :
                                Committed(run_storage, sm[i].tag)[k].step = sm[i].step)

\* File 2 gave a sample at step 1 in a reload that listed it; a later reload
\* listed file 1 only, so that the entry of file 2 became Dead, staged a
\* sample of file 1 at step 0 and published: the series has both points.
C22_Witness ==
    /\ pc = "idle"
    /\ Len(lifeLog) = 2
    /\ lifeLog[1][1] = 2 /\ lifeLog[1][3].step = 1
    /\ lifeLog[2][1] = 1 /\ lifeLog[2][3].step = 0
    /\ IsDead(files, 2)
    /\ deadCause[2] = "omitted"
    /\ IsActive(files, 1)
    /\ unpublished = 0
    /\ Len(Committed(run_storage, "acc")) = 2
    /\ run_storage.start_time = data.start_time

====
